---- MODULE Spec2Model ----
(***************************************************************************)
(* Model of image_tea_installer.py: main() and the helpers it drives       *)
(* (get_latest_release, download_file, extract_zip, uninstall,             *)
(* run_launcher), over the three filesystem objects the program touches:   *)
(* extract_dir (the target), download_path (the archive file) and the      *)
(* temporary directory extract_zip creates next to the target.             *)
(***************************************************************************)
EXTENDS Integers, Sequences, FiniteSets, TLC

\* ---------------------------------------------------------------- bounds
MaxAssets == 2          \* longest asset list of a release
MaxBlocks == 2          \* most blocks a download of unknown length delivers

\* ------------------------------------------------------- program constants
BlockSize == 1024 * 8   \* block_size that urlretrieve passes to progress_hook

\* -------------------------------------------------------------- universes
Names == {"a", "b"}                         \* entry names inside a directory
Kinds == {"file", "dir"}
NoEntry == [kind |-> "none", origin |-> "none"]
OldEntries == [kind : Kinds, origin : {"old"}]
NewEntries == [kind : Kinds, origin : {"top", "child"}]
Entries == OldEntries \cup NewEntries \cup {NoEntry}
EmptyDir == [n \in Names |-> NoEntry]

\* what getch() can return (already lower-cased); "z" stands for any other key
Keys == {"y", "n", "\r", "\n", "", "l", "r", "u", "x", "z"}
NoKey == "none"
Prompts == {"menu", "confirm1", "confirm2", "proceed", "runprompt"}

installation_file == "App.zip"
AssetNames == {"App.zip", "app.zip", "README.md"}
NoUrl == "none"

\* declared Content-Length values of the asset (-1: no header)
Sizes == {-1, 0, 1, BlockSize, BlockSize + 1, 3 * BlockSize}

\* ------------------------------------------------------------- archives
\* top: the top-level entries the archive extracts to; kids: the children of
\* the directory when the top level is one single directory.
NoKinds == [n \in Names |-> "none"]
TopNames(a) == {n \in Names : a.top[n] # "none"}
KidNames(a) == {n \in Names : a.kids[n] # "none"}
SingleDir(top) ==
    /\ Cardinality({n \in Names : top[n] # "none"}) = 1
    /\ \E n \in Names : top[n] = "dir"
Archives ==
    {a \in [top : [Names -> Kinds \cup {"none"}], kids : [Names -> Kinds \cup {"none"}]] :
        ~SingleDir(a.top) => a.kids = NoKinds}
Corrupt == [top |-> NoKinds, kids |-> NoKinds, bad |-> TRUE]    \* not a readable zip
NoArchive == [top |-> NoKinds, kids |-> NoKinds, none |-> TRUE] \* nothing downloaded

VARIABLES
    pc,             \* position in main()
    targetExists,   \* extract_dir.exists()
    target,         \* the entries of extract_dir, by name
    dlFile,         \* download_path: "absent", "partial" or "complete"
    archive,        \* the archive this run downloaded to download_path
    scratchExists,  \* the TemporaryDirectory of extract_zip exists
    key,            \* what getch() returned and the prompt has not yet acted on
    r1, r2,         \* uninstall(): answers to the two confirmations
    assets,         \* main(): release_info['assets'] while it is searched
    download_url,   \* main(): the url found in the assets, or NoUrl
    size, blocknum, \* urlretrieve: declared size and blocks reported so far
    percent,        \* progress_hook: the percentage last written, -1 before the first
    wrapper,        \* extract_zip: the single-directory branch was taken
    todo,           \* extract_zip: entries still to be moved
    cur,            \* extract_zip: the entry being moved (dest checked), or ""
    tBefore,        \* target when extract_zip started
    jobExists, jobTarget,   \* target when the install / reinstall job started
    attempts,       \* calls this run made: release query, download, extraction
    outcome,        \* what the run reported last
    warned,         \* the "Could not remove archive" warning was printed
    launched        \* result of run_launcher: "none", "ok", "failed"

fsVars == <<targetExists, target, dlFile, scratchExists>>
uninstVars == <<r1, r2>>
dlVars == <<size, blocknum, percent, archive>>
exVars == <<wrapper, todo, cur, tBefore>>
jobVars == <<jobExists, jobTarget, attempts>>
repVars == <<outcome, warned, launched>>
vars == <<pc, fsVars, key, uninstVars, assets, download_url, dlVars, exVars, jobVars, repVars>>

\* ---------------------------------------------------------------- helpers
\* main(): extract_dir.exists() and any(extract_dir.iterdir())
IsInstalled == targetExists /\ \E n \in Names : target[n] # NoEntry

\* the releases the registry can answer with: each asset has a name and its
\* own browser_download_url (here the asset's position, as a string)
AssetLists ==
    UNION {{[i \in 1..k |-> [name |-> f[i], browser_download_url |-> ToString(i)]] :
                f \in [1..k -> AssetNames]} : k \in 0..MaxAssets}

\* mutant: the names are compared without regard to case
NameMatches_IgnoreCase(name) == name \in {"App.zip", "app.zip"}

\* asset['name'] == installation_file
NameMatches(name) == name = installation_file

\* main(): the search loop over release_info['assets'], with its break
RECURSIVE FindFrom(_, _)
FindFrom(al, i) ==
    IF i > Len(al) THEN NoUrl
    ELSE IF NameMatches(al[i].name) THEN al[i].browser_download_url
    ELSE FindFrom(al, i + 1)
FindAsset(al) == FindFrom(al, 1)

\* mutant: the single-directory branch is never taken
IsWrapper_Never(a) == FALSE

\* mutant: the is_dir() test is missing
IsWrapper_NoDirCheck(a) == Cardinality(TopNames(a)) = 1

\* extract_zip: len(entries) == 1 and entries[0].is_dir()
IsWrapper(a) == SingleDir(a.top)

\* the entry extract_zip moves under name n
Moved(a, w, n) ==
    IF w THEN [kind |-> a.kids[n], origin |-> "child"]
    ELSE [kind |-> a.top[n], origin |-> "top"]

\* the names extract_zip iterates over
Items(a) == IF IsWrapper(a) THEN KidNames(a) ELSE TopNames(a)

\* the calls of one run, none made yet
NoAttempts == [query |-> 0, transfer |-> 0, materialize |-> 0]

\* mutant: the percentage is not capped
Percent_NoClamp(bn, total) == (bn * BlockSize * 100) \div total

\* progress_hook: min(int(downloaded / total_size * 100), 100), for
\* total_size > 0 (int() of a non-negative quotient is its floor)
Percent(bn, total) ==
    LET p == (bn * BlockSize * 100) \div total IN IF p < 100 THEN p ELSE 100

\* progress_hook(block_num, block_size, total_size): what it writes, if anything
Hook(bn, total, last) == IF total > 0 THEN Percent(bn, total) ELSE last

TypeOK ==
    /\ targetExists \in BOOLEAN
    /\ target \in [Names -> Entries]
    /\ dlFile \in {"absent", "partial", "complete"}
    /\ scratchExists \in BOOLEAN
    /\ todo \subseteq Names

Init ==
    /\ pc = "start"
    /\ targetExists \in BOOLEAN
    /\ target \in [Names -> OldEntries \cup {NoEntry}]
    /\ ~targetExists => target = EmptyDir
    /\ dlFile = "absent"
    /\ scratchExists = FALSE
    /\ key = NoKey
    /\ r1 = NoKey /\ r2 = NoKey
    /\ assets = <<>> /\ download_url = NoUrl
    /\ size = -1 /\ blocknum = 0 /\ percent = -1 /\ archive = NoArchive
    /\ wrapper = FALSE /\ todo = {} /\ cur = "" /\ tBefore = EmptyDir
    /\ jobExists = FALSE /\ jobTarget = EmptyDir /\ attempts = NoAttempts
    /\ outcome = "none" /\ warned = FALSE /\ launched = "none"

\* ------------------------------------------------- main(): detection, menu
\* main() line 402: the run derives its branch from the filesystem
Start ==
    /\ pc = "start"
    /\ pc' = IF IsInstalled THEN "menu" ELSE "resolve"
    /\ jobExists' = targetExists /\ jobTarget' = target /\ UNCHANGED attempts
    /\ UNCHANGED <<fsVars, key, uninstVars, assets, download_url, dlVars, exVars, repVars>>

\* getch() at one of the five prompts returns a key
GetKey ==
    /\ pc \in Prompts /\ key = NoKey
    /\ \E k \in Keys : key' = k
    /\ UNCHANGED <<pc, fsVars, uninstVars, assets, download_url, dlVars, exVars, jobVars, repVars>>

\* the options menu: [L]aunch
MenuLaunch ==
    /\ pc = "menu" /\ key = "l"
    /\ key' = NoKey
    /\ pc' = "launch"
    /\ UNCHANGED <<fsVars, uninstVars, assets, download_url, dlVars, exVars, jobVars, repVars>>

\* the options menu: [R]einstall breaks out of the loop into the setup process
MenuReinstall ==
    /\ pc = "menu" /\ key = "r"
    /\ key' = NoKey
    /\ pc' = "resolve"
    /\ jobExists' = targetExists /\ jobTarget' = target /\ UNCHANGED attempts
    /\ UNCHANGED <<fsVars, uninstVars, assets, download_url, dlVars, exVars, repVars>>

\* the options menu: [U]ninstall calls uninstall(extract_dir)
MenuUninstall ==
    /\ pc = "menu" /\ key = "u"
    /\ key' = NoKey
    /\ IF targetExists
         THEN pc' = "confirm1" /\ UNCHANGED outcome
         ELSE pc' = "menu" /\ outcome' = "not_installed"
    /\ UNCHANGED <<fsVars, uninstVars, assets, download_url, dlVars, exVars, jobVars, warned, launched>>

\* the options menu: [X] or Enter exits
MenuExit ==
    /\ pc = "menu" /\ key \in {"x", "\r", "\n", ""}
    /\ key' = NoKey
    /\ outcome' = "exit"
    /\ pc' = "done"
    /\ UNCHANGED <<fsVars, uninstVars, assets, download_url, dlVars, exVars, jobVars, warned, launched>>

\* the options menu: any other key falls through the if-chain and loops
MenuOther ==
    /\ pc = "menu" /\ key \in Keys \ {"l", "r", "u", "x", "\r", "\n", ""}
    /\ key' = NoKey
    /\ UNCHANGED <<pc, fsVars, uninstVars, assets, download_url, dlVars, exVars, jobVars, repVars>>

\* ------------------------------------------------------------- uninstall()
\* first confirmation: N or Enter returns False (back to the menu), Y goes
\* on to the second confirmation, any other key asks again
Confirm1 ==
    /\ pc = "confirm1" /\ key # NoKey
    /\ key' = NoKey
    /\ IF key \in {"n", "\r", "\n", ""}
         THEN pc' = "menu" /\ outcome' = "uninstall_cancelled" /\ r1' = NoKey
         ELSE IF key = "y" THEN pc' = "confirm2" /\ r1' = key /\ UNCHANGED outcome
         ELSE r1' = key /\ UNCHANGED <<pc, outcome>>
    /\ UNCHANGED <<fsVars, r2, assets, download_url, dlVars, exVars, jobVars, warned, launched>>

\* mutant: Enter counts as yes at the second confirmation, as it does at the
\* "Proceed with setup?" prompt
Confirm2_EnterIsYes ==
    /\ pc = "confirm2" /\ key # NoKey
    /\ key' = NoKey
    /\ IF key = "n"
         THEN pc' = "menu" /\ outcome' = "uninstall_cancelled" /\ r1' = NoKey /\ r2' = NoKey
         ELSE IF key \in {"y", "\r", "\n", ""}
                THEN pc' = "rmtree" /\ r2' = key /\ UNCHANGED <<r1, outcome>>
         ELSE r2' = key /\ UNCHANGED <<pc, outcome, r1>>
    /\ UNCHANGED <<fsVars, assets, download_url, dlVars, exVars, jobVars, warned, launched>>

\* second confirmation: N or Enter returns False, Y goes on to the deletion
Confirm2 ==
    /\ pc = "confirm2" /\ key # NoKey
    /\ key' = NoKey
    /\ IF key \in {"n", "\r", "\n", ""}
         THEN pc' = "menu" /\ outcome' = "uninstall_cancelled" /\ r1' = NoKey /\ r2' = NoKey
         ELSE IF key = "y" THEN pc' = "rmtree" /\ r2' = key /\ UNCHANGED <<r1, outcome>>
         ELSE r2' = key /\ UNCHANGED <<pc, outcome, r1>>
    /\ UNCHANGED <<fsVars, assets, download_url, dlVars, exVars, jobVars, warned, launched>>

\* mutant: main() continues the menu loop after a successful uninstall
RmtreeOk_BackToMenu ==
    /\ pc = "rmtree"
    /\ targetExists' = FALSE /\ target' = EmptyDir
    /\ outcome' = "uninstalled"
    /\ pc' = "menu"
    /\ r1' = NoKey /\ r2' = NoKey
    /\ UNCHANGED <<dlFile, scratchExists, key, assets, download_url,
                   dlVars, exVars, jobVars, warned, launched>>

\* shutil.rmtree(extract_dir) succeeded: main() returns
RmtreeOk ==
    /\ pc = "rmtree"
    /\ targetExists' = FALSE /\ target' = EmptyDir
    /\ outcome' = "uninstalled"
    /\ pc' = "done"
    /\ r1' = NoKey /\ r2' = NoKey
    /\ UNCHANGED <<dlFile, scratchExists, key, assets, download_url,
                   dlVars, exVars, jobVars, warned, launched>>

\* shutil.rmtree(extract_dir) raised part-way: some entries may be gone, the
\* directory itself is still there; uninstall returns False, the menu loops
RmtreeFail ==
    /\ pc = "rmtree"
    /\ \E gone \in SUBSET Names :
        target' = [n \in Names |-> IF n \in gone THEN NoEntry ELSE target[n]]
    /\ outcome' = "uninstall_error"
    /\ pc' = "menu"
    /\ r1' = NoKey /\ r2' = NoKey
    /\ UNCHANGED <<targetExists, dlFile, scratchExists, key,
                   assets, download_url, dlVars, exVars, jobVars, warned, launched>>

\* ------------------------------------------- main(): release and asset
\* get_latest_release raised: main() prints the error and returns
ReleaseFail ==
    /\ pc = "resolve"
    /\ outcome' = "failed_release"
    /\ pc' = "done"
    /\ attempts' = [attempts EXCEPT !.query = @ + 1]
    /\ UNCHANGED <<fsVars, key, uninstVars, assets, download_url, dlVars, exVars, jobExists, jobTarget,
                   warned, launched>>

\* get_latest_release returned the latest release
FetchRelease ==
    /\ pc = "resolve"
    /\ \E al \in AssetLists : assets' = al
    /\ pc' = "find"
    /\ attempts' = [attempts EXCEPT !.query = @ + 1]
    /\ UNCHANGED <<fsVars, key, uninstVars, download_url, dlVars, exVars, jobExists, jobTarget, repVars>>

\* main() searches release_info['assets'] for installation_file; without a
\* url it prints the error and returns (release_info is not read again)
ResolveAsset ==
    /\ pc = "find"
    /\ download_url' = FindAsset(assets)
    /\ IF FindAsset(assets) = NoUrl
         THEN outcome' = "failed_asset" /\ pc' = "done"
         ELSE UNCHANGED outcome /\ pc' = "proceed"
    /\ assets' = <<>>
    /\ UNCHANGED <<fsVars, key, uninstVars, dlVars, exVars, jobVars, warned, launched>>

\* mutant: the target directory is created before the answer is looked at
Proceed_MkdirFirst ==
    /\ pc = "proceed" /\ key # NoKey
    /\ key' = NoKey
    /\ targetExists' = TRUE
    /\ IF key \in {"y", "\r", "\n", ""} THEN pc' = "mkdir" /\ UNCHANGED outcome
       ELSE IF key = "n" THEN pc' = "done" /\ outcome' = "declined"
       ELSE UNCHANGED <<pc, outcome>>
    /\ UNCHANGED <<target, dlFile, scratchExists, uninstVars, assets, download_url, dlVars,
                   exVars, jobVars, warned, launched>>

\* "Proceed with setup?": Y or Enter proceeds, N cancels, other keys loop
Proceed ==
    /\ pc = "proceed" /\ key # NoKey
    /\ key' = NoKey
    /\ IF key \in {"y", "\r", "\n", ""} THEN pc' = "mkdir" /\ UNCHANGED outcome
       ELSE IF key = "n" THEN pc' = "done" /\ outcome' = "declined"
       ELSE UNCHANGED <<pc, outcome>>
    /\ UNCHANGED <<fsVars, uninstVars, assets, download_url, dlVars, exVars, jobVars, warned, launched>>

\* mutant: the target directory is emptied when it is (re)created
MkTarget_Wipe ==
    /\ pc = "mkdir"
    /\ targetExists' = TRUE /\ target' = EmptyDir
    /\ pc' = "download"
    /\ UNCHANGED <<dlFile, scratchExists, key, uninstVars, assets, download_url,
                   dlVars, exVars, jobVars, repVars>>

\* main() line 497: extract_dir.mkdir(exist_ok=True)
MkTarget ==
    /\ pc = "mkdir"
    /\ targetExists' = TRUE
    /\ pc' = "download"
    /\ UNCHANGED <<target, dlFile, scratchExists, key, uninstVars, assets, download_url,
                   dlVars, exVars, jobVars, repVars>>

\* ------------------------------------------------------- download_file()
\* urlretrieve could not open the url: nothing is written
DownloadOpenFail ==
    /\ pc = "download"
    /\ outcome' = "failed_download"
    /\ pc' = "done"
    /\ attempts' = [attempts EXCEPT !.transfer = @ + 1]
    /\ UNCHANGED <<fsVars, key, uninstVars, assets, download_url, dlVars, exVars, jobExists, jobTarget,
                   warned, launched>>

\* urlretrieve opened the url and created / truncated the destination
DownloadOpen ==
    /\ pc = "download"
    /\ dlFile' = "partial"
    /\ \E s \in Sizes : size' = s /\ percent' = Hook(0, s, -1)
    /\ blocknum' = 0
    /\ pc' = "stream"
    /\ attempts' = [attempts EXCEPT !.transfer = @ + 1]
    /\ UNCHANGED <<targetExists, target, scratchExists, key, uninstVars, assets, download_url,
                   archive, exVars, jobExists, jobTarget, repVars>>

\* one more block was read and written
DownloadBlock ==
    /\ pc = "stream"
    /\ IF size < 0 THEN blocknum < MaxBlocks ELSE blocknum * BlockSize < size
    /\ blocknum' = blocknum + 1
    /\ percent' = Hook(blocknum + 1, size, percent)
    /\ UNCHANGED <<pc, fsVars, key, uninstVars, assets, download_url, size, archive, exVars,
                   jobVars, repVars>>

\* mutant: a broken stream is downloaded again
DownloadFail_Retry ==
    /\ pc = "stream"
    /\ pc' = "download"
    /\ size' = -1 /\ blocknum' = 0 /\ percent' = -1
    /\ UNCHANGED <<fsVars, key, uninstVars, assets, download_url, archive, exVars, jobVars,
                   repVars>>

\* mutant: main() does not look at what download_file returned
DownloadFail_GoOn ==
    /\ pc = "stream"
    /\ outcome' = "failed_download"
    /\ pc' = "extract"
    /\ size' = -1 /\ blocknum' = 0 /\ percent' = -1
    /\ UNCHANGED <<fsVars, key, uninstVars, assets, download_url, archive, exVars, jobVars,
                   warned, launched>>

\* the stream broke or ended short: except Exception prints the error and
\* download_file returns False; main() returns
DownloadFail ==
    /\ pc = "stream"
    /\ outcome' = "failed_download"
    /\ pc' = "done"
    /\ size' = -1 /\ blocknum' = 0 /\ percent' = -1
    /\ UNCHANGED <<fsVars, key, uninstVars, assets, download_url, archive, exVars, jobVars,
                   warned, launched>>

\* the whole resource was written: download_file returns True
DownloadDone ==
    /\ pc = "stream"
    /\ size >= 0 => blocknum * BlockSize >= size
    /\ dlFile' = "complete"
    /\ \E a \in Archives \cup {Corrupt} : archive' = a
    /\ pc' = "extract"
    /\ size' = -1 /\ blocknum' = 0 /\ percent' = -1
    /\ UNCHANGED <<targetExists, target, scratchExists, key, uninstVars, assets, download_url,
                   exVars, jobVars, repVars>>

\* --------------------------------------------------------- extract_zip()
\* extract_to.mkdir(parents=True, exist_ok=True), then the temporary
\* directory is created in extract_to.parent
ExtractBegin ==
    /\ pc = "extract"
    /\ targetExists' = TRUE
    /\ scratchExists' = TRUE
    /\ tBefore' = target
    /\ pc' = "extractall"
    /\ attempts' = [attempts EXCEPT !.materialize = @ + 1]
    /\ UNCHANGED <<target, dlFile, key, uninstVars, assets, download_url, dlVars,
                   wrapper, todo, cur, jobExists, jobTarget, repVars>>

\* zip_ref.extractall(tmp_path) succeeded; entries are listed and the branch
\* (single top-level directory or not) is chosen
ExtractAll ==
    /\ pc = "extractall"
    /\ archive # Corrupt
    /\ wrapper' = IsWrapper(archive)
    /\ todo' = Items(archive)
    /\ cur' = ""
    /\ pc' = "moving"
    /\ UNCHANGED <<fsVars, key, uninstVars, assets, download_url, dlVars, tBefore, jobVars, repVars>>

\* mutant: the whole target is removed instead of dest
RemoveDest_All(t, n) == EmptyDir

\* the target after dest, if it exists, was removed (rmtree or unlink)
RemoveDest(t, n) == [t EXCEPT ![n] = NoEntry]

\* the target after shutil.move(item, dest)
MoveInto(t, n, e) == [t EXCEPT ![n] = e]

\* the loop takes the next item (iterdir order is arbitrary) and clears dest
TakeItem ==
    /\ pc = "moving" /\ cur = ""
    /\ \E n \in todo :
        /\ cur' = n
        /\ target' = IF target[n] # NoEntry THEN RemoveDest(target, n) ELSE target
    /\ UNCHANGED <<pc, targetExists, dlFile, scratchExists, key, uninstVars,
                   assets, download_url, dlVars, wrapper, todo, tBefore, jobVars, repVars>>

\* shutil.move(str(item), str(dest))
MoveItem ==
    /\ pc = "moving" /\ cur # ""
    /\ target' = MoveInto(target, cur, Moved(archive, wrapper, cur))
    /\ todo' = todo \ {cur}
    /\ cur' = ""
    /\ UNCHANGED <<pc, targetExists, dlFile, scratchExists, key, uninstVars,
                   assets, download_url, dlVars, wrapper, tBefore, jobVars, repVars>>

\* mutant: the temporary directory is made with mkdtemp and removed only at
\* the end of the normal path
ExtractFail_NoCleanup ==
    /\ pc \in {"extractall", "moving"}
    /\ pc = "moving" => (cur # "" \/ todo # {})
    /\ outcome' = "failed_extract"
    /\ pc' = "done"
    /\ wrapper' = FALSE /\ todo' = {} /\ cur' = ""
    /\ UNCHANGED <<fsVars, key, uninstVars, assets, download_url, dlVars,
                   tBefore, jobVars, warned, launched>>

\* an exception inside the with block (bad zip, extraction error, a remove or
\* a move that cannot complete): the temporary directory is cleaned up on the
\* way out, except Exception prints the error, extract_zip returns False
ExtractFail ==
    /\ pc \in {"extractall", "moving"}
    /\ pc = "moving" => (cur # "" \/ todo # {})
    /\ scratchExists' = FALSE
    /\ outcome' = "failed_extract"
    /\ pc' = "done"
    /\ wrapper' = FALSE /\ todo' = {} /\ cur' = ""
    /\ UNCHANGED <<targetExists, target, dlFile, key, uninstVars, assets, download_url, dlVars,
                   tBefore, jobVars, warned, launched>>

\* every item was moved: the with block ends, extract_zip returns True
ExtractDone ==
    /\ pc = "moving" /\ cur = "" /\ todo = {}
    /\ scratchExists' = FALSE
    /\ pc' = "cleanup"
    /\ wrapper' = FALSE
    /\ UNCHANGED <<targetExists, target, dlFile, key, uninstVars, assets, download_url, dlVars,
                   todo, cur, tBefore, jobVars, repVars>>

\* --------------------------------------------- main(): cleanup and success
\* mutant: the archive is not removed and nothing is said
Cleanup_KeepArchive ==
    /\ pc = "cleanup"
    /\ outcome' = "success"
    /\ pc' = "runprompt"
    /\ UNCHANGED <<fsVars, key, uninstVars, assets, download_url, dlVars, exVars, jobVars,
                   warned, launched>>

\* download_path.unlink() succeeded, or raised and only a warning is printed;
\* then the SUCCESS frame
Cleanup ==
    /\ pc = "cleanup"
    /\ \/ dlFile' = "absent" /\ UNCHANGED warned
       \/ dlFile # "absent" /\ warned' = TRUE /\ UNCHANGED dlFile
    /\ outcome' = "success"
    /\ pc' = "runprompt"
    /\ UNCHANGED <<targetExists, target, scratchExists, key, uninstVars, assets, download_url,
                   dlVars, exVars, jobVars, launched>>

\* "Run Image Tea now?": Y or Enter launches, N ends, other keys loop
RunPrompt ==
    /\ pc = "runprompt" /\ key # NoKey
    /\ key' = NoKey
    /\ pc' = IF key \in {"y", "\r", "\n", ""} THEN "launch"
             ELSE IF key = "n" THEN "done" ELSE pc
    /\ UNCHANGED <<fsVars, uninstVars, assets, download_url, dlVars, exVars, jobVars, repVars>>

\* mutant: a launcher that did not start is not reported
Launch_SilentFailure ==
    /\ pc = "launch"
    /\ \E ok \in BOOLEAN : launched' = IF ok THEN "ok" ELSE "none"
    /\ pc' = "done"
    /\ UNCHANGED <<fsVars, key, uninstVars, assets, download_url, dlVars, exVars, jobVars,
                   outcome, warned>>

\* run_launcher(extract_dir): True or False, then main() ends either way
Launch ==
    /\ pc = "launch"
    /\ \E ok \in BOOLEAN : launched' = IF ok THEN "ok" ELSE "failed"
    /\ pc' = "done"
    /\ UNCHANGED <<fsVars, key, uninstVars, assets, download_url, dlVars, exVars, jobVars,
                   outcome, warned>>

\* ----------------------------------------------------- __main__ handlers
\* KeyboardInterrupt anywhere in main(): it is no Exception, so no handler of
\* download_file or extract_zip sees it; a with block in progress cleans up
\* its temporary directory; an rmtree in progress stops where it is; nothing
\* else is undone. "Setup cancelled by user." is printed.
Interrupt ==
    /\ pc \notin {"start", "done"} /\ key = NoKey
    /\ scratchExists' = FALSE
    /\ IF pc = "rmtree"
         THEN \E gone \in SUBSET Names :
                target' = [n \in Names |-> IF n \in gone THEN NoEntry ELSE target[n]]
         ELSE UNCHANGED target
    /\ outcome' = "cancelled"
    /\ pc' = "done"
    /\ UNCHANGED <<targetExists, dlFile, key, uninstVars, assets, download_url, dlVars, exVars,
                   jobVars, warned, launched>>

\* the program is started again: main() begins with fresh locals over the
\* filesystem the last run left
Restart ==
    /\ pc = "done"
    /\ pc' = "start"
    /\ key' = NoKey
    /\ r1' = NoKey /\ r2' = NoKey
    /\ assets' = <<>> /\ download_url' = NoUrl
    /\ size' = -1 /\ blocknum' = 0 /\ percent' = -1 /\ archive' = NoArchive
    /\ wrapper' = FALSE /\ todo' = {} /\ cur' = "" /\ tBefore' = EmptyDir
    /\ jobExists' = FALSE /\ jobTarget' = EmptyDir /\ attempts' = NoAttempts
    /\ outcome' = "none" /\ warned' = FALSE /\ launched' = "none"
    /\ UNCHANGED fsVars

Next ==
    \/ Start \/ GetKey
    \/ MenuLaunch \/ MenuReinstall \/ MenuUninstall \/ MenuExit \/ MenuOther
    \/ Confirm1 \/ Confirm2 \/ RmtreeOk \/ RmtreeFail
    \/ ReleaseFail \/ FetchRelease \/ ResolveAsset \/ Proceed \/ MkTarget
    \/ DownloadOpenFail \/ DownloadOpen \/ DownloadBlock \/ DownloadFail \/ DownloadDone
    \/ ExtractBegin \/ ExtractAll \/ TakeItem \/ MoveItem \/ ExtractFail \/ ExtractDone
    \/ Cleanup \/ RunPrompt \/ Launch
    \/ Interrupt \/ Restart

Spec == Init /\ [][Next]_vars


\* ===================================================== claims C1 .. C10
\* what the claims expect of extract_zip, stated from the archive alone
FlatNames(a) == IF SingleDir(a.top) THEN KidNames(a) ELSE TopNames(a)
FlatEntry(a, n) ==
    IF SingleDir(a.top) THEN [kind |-> a.kids[n], origin |-> "child"]
    ELSE [kind |-> a.top[n], origin |-> "top"]
Negative == {"n", "\r", "\n", ""}
Materialized == pc = "cleanup"      \* extract_zip has just returned True

\* C1: the target directory is deleted (wholly or in part) only by the rmtree
\* step of an uninstall whose first and second confirmation were both
\* answered Y; an N or Enter at either confirmation changes nothing in the
\* target and leads back to the options menu.
C1_TwoConfirmations ==
    [][ /\ (targetExists /\ ~targetExists') => (pc = "rmtree" /\ r1 = "y" /\ r2 = "y")
        /\ (pc \in {"confirm1", "confirm2", "rmtree"} /\ target' # target)
              => (pc = "rmtree" /\ r1 = "y" /\ r2 = "y")
        /\ (pc \in {"confirm1", "confirm2"} /\ key \in Negative)
              => (pc' = "menu" /\ target' = target /\ targetExists' = targetExists)
      ]_vars
C1_Witness == pc = "done" /\ outcome = "uninstalled" /\ ~targetExists

\* C2: when the archive extracts to one single directory D, a successful
\* extract_zip leaves under every child name of D that child, and leaves every
\* other name of the target as it was (D itself is not moved in).
C2_WrapperFlattened ==
    (Materialized /\ SingleDir(archive.top)) =>
        \A n \in Names :
            target[n] = IF n \in KidNames(archive)
                          THEN [kind |-> archive.kids[n], origin |-> "child"]
                          ELSE tBefore[n]
C2_Witness ==
    /\ Materialized /\ SingleDir(archive.top)
    /\ KidNames(archive) = Names
    /\ \E n \in Names : tBefore[n] \in OldEntries

\* C3: when the archive does not extract to one single directory, a
\* successful extract_zip leaves every top-level entry in the target under its
\* own name, and leaves every other name of the target as it was.
C3_TopLevelMoved ==
    (Materialized /\ ~SingleDir(archive.top)) =>
        \A n \in Names :
            target[n] = IF n \in TopNames(archive)
                          THEN [kind |-> archive.top[n], origin |-> "top"]
                          ELSE tBefore[n]
C3_Witness ==
    /\ Materialized
    /\ TopNames(archive) = Names
    /\ \E n \in Names : archive.top[n] = "dir"

\* C4: a successful extract_zip into a non-empty target replaces exactly the
\* names the archive flattens to and keeps every other entry; when the target
\* already held the archive's entries (the same archive materialized before),
\* the target is the same afterwards.
C4_ReplaceConflictsOnly ==
    (Materialized /\ tBefore # EmptyDir) =>
        /\ \A n \in FlatNames(archive) : target[n] = FlatEntry(archive, n)
        /\ \A n \in Names \ FlatNames(archive) : target[n] = tBefore[n]
        /\ (\A n \in FlatNames(archive) : tBefore[n] = FlatEntry(archive, n))
              => target = tBefore
C4_Witness ==
    /\ Materialized
    /\ \E n \in FlatNames(archive) : tBefore[n].kind = "dir" /\ tBefore[n].origin = "old"
    /\ \E n \in Names \ FlatNames(archive) : tBefore[n].kind = "file"
\* the second materialization of one archive is reachable
C4_SecondTimeReached ==
    /\ Materialized /\ FlatNames(archive) # {}
    /\ \A n \in FlatNames(archive) : tBefore[n] = FlatEntry(archive, n)

\* C5: a transfer that ends with an error leaves no partial file at
\* download_path.
C5_NoPartialAfterError == outcome = "failed_download" => dlFile # "partial"

\* C6: an interrupt while the transfer is streaming ends the run reported as
\* cancelled with no file at download_path.
C6_CancelRemovesFile ==
    [][(pc = "stream" /\ outcome' = "cancelled") => dlFile' = "absent"]_vars

\* C7: an install or reinstall job cancelled during the download phase leaves
\* the target as it was when the job started: same existence, same entries.
C7_CancelKeepsTarget ==
    [][(pc \in {"download", "stream"} /\ outcome' = "cancelled")
          => (targetExists' = jobExists /\ target' = jobTarget)]_vars

\* C8 as claimed: from an empty or missing target, reported success means the
\* target holds the archive's flattened contents and download_path is gone.
C8_SuccessRemovesArchive ==
    (outcome = "success" /\ jobTarget = EmptyDir) =>
        /\ targetExists
        /\ \A n \in Names :
              target[n] = IF n \in FlatNames(archive) THEN FlatEntry(archive, n) ELSE NoEntry
        /\ dlFile = "absent"
\* C8 as amended: ... and download_path is gone unless removing it failed, in
\* which case the "Could not remove archive" warning was printed.
C8_SuccessRemovesOrWarns ==
    (outcome = "success" /\ jobTarget = EmptyDir) =>
        /\ targetExists
        /\ \A n \in Names :
              target[n] = IF n \in FlatNames(archive) THEN FlatEntry(archive, n) ELSE NoEntry
        /\ dlFile = "absent" \/ warned
        /\ dlFile = "absent" \/ dlFile = "complete"
C8_Witness ==
    /\ outcome = "success" /\ jobTarget = EmptyDir /\ ~jobExists
    /\ SingleDir(archive.top) /\ KidNames(archive) # {}
    /\ dlFile = "absent" /\ ~warned

\* C9: the asset search yields the url of the first asset whose name is
\* exactly installation_file; when no name is equal it ends the run as failed
\* (asset not found); up to and including the search nothing on the
\* filesystem changes, and no transfer starts.
FirstEqual(al) ==
    IF \E i \in 1..Len(al) : al[i].name = installation_file
      THEN al[CHOOSE i \in 1..Len(al) :
                /\ al[i].name = installation_file
                /\ \A j \in 1..(i - 1) : al[j].name # installation_file].browser_download_url
      ELSE NoUrl
C9_ExactFirstAsset ==
    [][ /\ (pc = "find" /\ outcome' # "cancelled") =>
              /\ download_url' = FirstEqual(assets)
              /\ IF FirstEqual(assets) = NoUrl
                   THEN pc' = "done" /\ outcome' = "failed_asset"
                   ELSE pc' = "proceed"
        /\ pc \in {"resolve", "find"} => fsVars' = fsVars
      ]_vars
C9_Witness ==
    /\ pc = "proceed" /\ download_url = "2"
C9_WitnessNotFound ==
    /\ pc = "done" /\ outcome = "failed_asset" /\ download_url = NoUrl

\* C10: the temporary directory of extract_zip exists only while extract_zip
\* is inside its with block: after success, after an error and after an
\* interrupt it is gone.
C10_ScratchTransient == scratchExists => pc \in {"extractall", "moving"}
C10_Witness ==
    /\ pc = "done" /\ outcome = "failed_extract" /\ ~scratchExists
    /\ target # tBefore


\* ==================================================== claims C11 .. C20
Failures == {"failed_release", "failed_asset", "failed_download", "failed_extract"}
OtherVars == <<fsVars, uninstVars, assets, download_url, dlVars, exVars, jobVars, repVars>>

\* C11: once the uninstall has been reported successful the target directory
\* does not exist (not installed), the run is over, and the run has made no
\* release query, download, extraction or launch.
C11_UninstallEndsRun ==
    outcome = "uninstalled" =>
        /\ pc = "done"
        /\ ~targetExists /\ ~IsInstalled
        /\ attempts = NoAttempts /\ launched = "none"
C11_Witness ==
    /\ pc = "done" /\ outcome = "uninstalled" /\ ~targetExists
    /\ \A n \in Names : jobTarget[n] \in OldEntries

\* C12: when the deletion of a doubly confirmed uninstall failed and the
\* options menu is shown again, the target directory still exists and is
\* non-empty.
C12_MenuAfterErrorInstalled == (pc = "menu" /\ outcome = "uninstall_error") => IsInstalled

C14_ProgressMonotone ==
    [][ /\ percent' \in (0..100) \cup {-1}
        /\ (pc = "stream" /\ pc' = "stream" /\ percent # -1) => percent' >= percent
        /\ (pc' = "stream" /\ size' > 0) => percent' # -1
        /\ (pc = "stream" /\ pc' = "extract" /\ size > 0) => percent = 100
      ]_vars
C14_Witness == pc = "stream" /\ size = 3 * BlockSize /\ blocknum = 3 /\ percent = 100

\* C15: one run makes at most one release query, one download and one
\* extraction, and a failure of any of them is reported and ends the run.
C15_SingleAttempt ==
    /\ attempts.query <= 1 /\ attempts.transfer <= 1 /\ attempts.materialize <= 1
    /\ outcome \in Failures => pc = "done"
C15_Witness ==
    /\ pc = "done" /\ outcome = "failed_download" /\ dlFile = "partial"
    /\ attempts = [query |-> 1, transfer |-> 1, materialize |-> 0]

\* C16: once extract_zip has begun to move entries, an interrupt does not end
\* the run as cancelled.
C16_NoCancelWhileMoving ==
    [][(pc = "moving" /\ (cur # "" \/ todo # FlatNames(archive)))
          => outcome' # "cancelled"]_vars

\* C17: when extract_zip fails, every name the target held before holds the
\* old entry or the new entry.
C17_EntryOldOrNew ==
    outcome = "failed_extract" =>
        \A n \in Names :
            tBefore[n] # NoEntry =>
                \/ target[n] = tBefore[n]
                \/ n \in FlatNames(archive) /\ target[n] = FlatEntry(archive, n)

\* C18: the download starts only with a url found in the release, the
\* extraction only with a completely downloaded archive, the archive is
\* removed only after the extraction returned True, and a failed step is the
\* last step of the run.
C18_PipelineOrder ==
    [][ /\ attempts'.transfer > 0 => (attempts'.query = 1 /\ download_url' # NoUrl)
        /\ pc' \in {"extract", "extractall", "moving"}
              => (dlFile' = "complete" /\ outcome' \notin Failures)
        /\ attempts'.materialize > 0 => (attempts'.transfer = 1 /\ dlFile' # "partial")
        /\ (dlFile # "absent" /\ dlFile' = "absent")
              => (pc = "cleanup" /\ attempts.materialize = 1 /\ outcome \notin Failures)
        /\ outcome' \in Failures => pc' = "done"
      ]_vars
C18_Witness ==
    /\ pc = "runprompt" /\ outcome = "success" /\ dlFile = "absent"
    /\ attempts = [query |-> 1, transfer |-> 1, materialize |-> 1]

\* C19: whenever success is reported the target directory exists and is
\* non-empty.
C19_SuccessMeansInstalled == outcome = "success" => IsInstalled

\* C20: N at "Proceed with setup?" ends the run with the target as it was when
\* the job started, nothing downloaded and nothing launched; a key other than
\* Y, N or Enter changes nothing and the prompt asks again.
C20_DeclineChangesNothing ==
    [][ /\ (pc = "proceed" /\ key = "n") =>
              (pc' = "done" /\ outcome' = "declined" /\ fsVars' = fsVars)
        /\ outcome' = "declined" =>
              /\ pc' = "done"
              /\ targetExists' = jobExists' /\ target' = jobTarget'
              /\ attempts'.transfer = 0 /\ attempts'.materialize = 0
              /\ launched' = "none"
        /\ (pc = "proceed" /\ key \in Keys \ {"y", "n", "\r", "\n", ""}) =>
              (pc' = "proceed" /\ key' = NoKey /\ OtherVars' = OtherVars)
      ]_vars
C20_Witness ==
    /\ pc = "done" /\ outcome = "declined"
    /\ ~targetExists /\ dlFile = "absent"


\* ==================================================== claim C21
PreMove == {"resolve", "find", "proceed", "mkdir", "download", "stream", "extract",
            "extractall"}

\* C21: in a reinstall that started over an installed target, the target
\* holds exactly the entries it had when the reinstall started as long as no
\* entry has been moved, and a failure in that part of the job (release
\* lookup, asset search, download, unreadable archive) ends the run with those
\* entries still there, i.e. still installed.
C21_FailedReinstallKeepsTarget ==
    [][ (jobExists /\ jobTarget # EmptyDir) =>
          /\ pc' \in PreMove => (targetExists' /\ target' = jobTarget')
          /\ (pc \in PreMove /\ outcome' \in Failures) =>
                /\ pc' = "done"
                /\ targetExists' /\ target' = jobTarget /\ target' # EmptyDir
      ]_vars
C21_Witness ==
    /\ pc = "done" /\ outcome = "failed_extract" /\ archive = Corrupt
    /\ jobExists /\ jobTarget # EmptyDir
    /\ targetExists /\ target = jobTarget

====
